---- MODULE Spec2Model ----
(***************************************************************************)
(* A model of compile.py: main(spec, dest, overwrite) reads a problem      *)
(* sheet specification and writes main.tex and one file per problem into   *)
(* dest/problems.                                                          *)
(*                                                                         *)
(* Text is a sequence of one-character strings, so that splitting and      *)
(* formatting are computed character by character.  The fixed text of a    *)
(* template (the part of a format string between two {} fields) is one     *)
(* element of such a sequence.                                             *)
(***************************************************************************)
EXTENDS Integers, Sequences, FiniteSets, TLC

VARIABLES
    spec_lines,    \* open(spec).read().splitlines(): the title, then the directives
    overwrite,     \* the overwrite argument of main (-f)
    unwritable,    \* names in dest/problems for which open(path, "w") raises OSError
    main_tex,      \* dest/main.tex on disk: None, or Some(content)
    problems_dir,  \* dest/problems on disk: file name -> content
    run,           \* 1 in the first call of main, 2 in the second
    pc,            \* "start", "loop", "done", "aborted"
    i,             \* index in spec_lines of the next line the for loop takes
    main_file,     \* what main_file is open on: "closed", "file", "devnull"
    panic_mode,
    chapter,       \* None or Some(id)
    subchapter,    \* None or Some(id)
    problem,       \* None or Some(id)
    subproblems,   \* None or Some(letters)
    stdout,        \* the lines print() wrote, in order
    warned,        \* the messages given to warnings.warn, in order
    first_run      \* main.tex, dest/problems and the output of the first call of main

vars == <<spec_lines, overwrite, unwritable, main_tex, problems_dir, run, pc, i,
          main_file, panic_mode, chapter, subchapter, problem, subproblems,
          stdout, warned, first_run>>

----------------------------------------------------------------------------
(* Bounds of the model *)

\* the largest number of directive lines after the title
MaxLines == 3
\* the largest number of words of a line in SpecClassify
MaxWords == 4
\* the largest number of sub-problem letters of a line in SpecLetters
MaxLetters == 3

----------------------------------------------------------------------------
(* Python values *)

None == << >>
Some(x) == <<x>>

\* str(x) as format() applies it to a field: None gives the text None
Str(x) == IF x = None THEN <<"N", "o", "n", "e">> ELSE x[1]

\* string.ascii_lowercase
ascii_lowercase ==
    <<"a", "b", "c", "d", "e", "f", "g", "h", "i", "j", "k", "l", "m",
      "n", "o", "p", "q", "r", "s", "t", "u", "v", "w", "x", "y", "z">>

\* the characters str.split() takes as separators, of those a line of the model holds
Whitespace == {" ", "\t"}

\* ord(character) - ord("a"), for a lowercase letter
next_number(character) ==
    (CHOOSE k \in 1..Len(ascii_lowercase) : ascii_lowercase[k] = character) - 1

\* "{}".format(n) for 0 <= n <= 25
Digits == <<"0", "1", "2", "3", "4", "5", "6", "7", "8", "9">>
FormatInt(n) ==
    IF n < 10 THEN <<Digits[n + 1]>>
    ELSE <<Digits[(n \div 10) + 1], Digits[(n % 10) + 1]>>

\* repr(s) of a string without quotes, backslashes or control characters
repr(s) == <<"'">> \o s \o <<"'">>

----------------------------------------------------------------------------
(* line.split(maxsplit=2) *)

\* the first index >= k of s that holds no whitespace, Len(s) + 1 if there is none
SkipWhitespace(s, k) ==
    IF \E j \in k..Len(s) : s[j] \notin Whitespace
    THEN CHOOSE j \in k..Len(s) :
            /\ s[j] \notin Whitespace
            /\ \A h \in k..(j - 1) : s[h] \in Whitespace
    ELSE Len(s) + 1

\* the first index >= k of s that holds whitespace, Len(s) + 1 if there is none
WordEnd(s, k) ==
    IF \E j \in k..Len(s) : s[j] \in Whitespace
    THEN CHOOSE j \in k..Len(s) :
            /\ s[j] \in Whitespace
            /\ \A h \in k..(j - 1) : s[h] \notin Whitespace
    ELSE Len(s) + 1

RECURSIVE SplitFrom(_, _, _)
\* the words of s from index k on, after at most maxsplit splits; what is left
\* after the last split is one word with its leading whitespace removed only
SplitFrom(s, k, maxsplit) ==
    LET b == SkipWhitespace(s, k) IN
    IF b > Len(s) THEN << >>
    ELSE IF maxsplit = 0 THEN <<SubSeq(s, b, Len(s))>>
    ELSE LET e == WordEnd(s, b) IN
         <<SubSeq(s, b, e - 1)>> \o SplitFrom(s, e, maxsplit - 1)

split(s) == SplitFrom(s, 1, 2)

----------------------------------------------------------------------------
(* The templates, lines 19-92 *)

\* CHAPTER.format(id, title)
CHAPTER(id, title) == <<"\\chapter{">> \o id \o <<"}{">> \o title \o <<"}\n">>

\* SUBCHAPTER.format(id, title)
SUBCHAPTER(id, title) == <<"\t\\subchapter{">> \o id \o <<"}{">> \o title \o <<"}\n">>

\* SUBFILE.format(c, s, p, l), the fields already in str form
SUBFILE(c, s, p, l) ==
    <<"\t\t\\subfile{problems/">> \o c \o <<".">> \o s \o <<".">> \o p \o l
        \o <<".", "t", "e", "x">> \o <<"}\n">>

PAGEBREAK == "\t\t\\pagebreak\n"
BEGIN_DOC == "\\begin{document}\n"
END_DOC == "\\end{document}"
PROBLEM_PREAMBLE == "\\documentclass[../main.tex]{subfiles}\n"
MAIN_PREAMBLE == "\\documentclass[11pt,a4paper]{article}...\n"

\* MAIN_CONTENT.format(title)
MAIN_CONTENT(title) == <<"\\title{">> \o title \o <<"}\n\\date{}\n\\author{}\n\\maketitle\n">>

\* what lines 128-133 write to a main.tex just opened
MainHead(title) ==
    <<MAIN_PREAMBLE, "\n", BEGIN_DOC, "\n">> \o MAIN_CONTENT(title) \o <<"\n">>

\* "{}.{}.{}{}.tex".format(chapter, subchapter, problem, subproblems)
problem_file_name(c, s, p, l) ==
    Str(c) \o <<".">> \o Str(s) \o <<".">> \o Str(p) \o Str(l) \o <<".", "t", "e", "x">>

\* the reference with chapter and subchapter in the other order
subfile_reference_swapped(c, s, p, l) == SUBFILE(Str(s), Str(c), Str(p), Str(l))

\* the reference lines 224-231 write, with the fields they format
subfile_reference(c, s, p, l) == SUBFILE(Str(c), Str(s), Str(p), Str(l))

----------------------------------------------------------------------------
(* The content of a problem file, lines 183-215 *)

SETCOUNTER(n) == <<"\t\\setcounter{enumi}{">> \o FormatInt(n) \o <<"}\n">>
ITEM == "\t\\item \n"

\* whether the loop of lines 193-201 resets the counter before the item of
\* character, subproblem_number items having been written
needs_reset(character, subproblem_number) ==
    next_number(character) # subproblem_number

RECURSIVE items_from_counter(_, _)
\* the loop with the running count set to the value after a reset
items_from_counter(letters, subproblem_number) ==
    IF letters = << >> THEN << >>
    ELSE (IF needs_reset(Head(letters), subproblem_number)
          THEN SETCOUNTER(next_number(Head(letters)))
          ELSE << >>)
         \o <<ITEM>>
         \o items_from_counter(Tail(letters), next_number(Head(letters)) + 1)

RECURSIVE items(_, _)
\* the loop of lines 193-201 over letters, subproblem_number items written so far
items(letters, subproblem_number) ==
    IF letters = << >> THEN << >>
    ELSE (IF needs_reset(Head(letters), subproblem_number)
          THEN SETCOUNTER(next_number(Head(letters)))
          ELSE << >>)
         \o <<ITEM>>
         \o items(Tail(letters), subproblem_number + 1)

\* a list also when there is no letter
problem_structure_always_list(letters) ==
    <<"\\begin{enumerate}[a)]\n">> \o items(letters, 0) \o <<"\\end{enumerate}\n">>

\* problem_structure, lines 189-204
problem_structure(letters) ==
    IF letters # << >>
    THEN <<"\\begin{enumerate}[a)]\n">> \o items(letters, 0) \o <<"\\end{enumerate}\n">>
    ELSE <<"\n">>

\* content, lines 183-215: what is written to the problem file
content(p, letters) ==
    <<PROBLEM_PREAMBLE, "\n", BEGIN_DOC, "\n">>
        \o <<"\\problem{">> \o p \o <<"}\n">>
        \o problem_structure(letters)
        \o <<"\n", "\\solution\n">>
        \o problem_structure(letters)
        \o <<"\n", END_DOC>>

----------------------------------------------------------------------------
(* The files of dest *)

EmptyDir == [n \in {} |-> << >>]
exists(dir, name) == name \in DOMAIN dir
\* open(path, "a") followed by the writes
write_file_append(dir, name, text) ==
    [n \in DOMAIN dir \cup {name} |->
        IF n = name THEN (IF name \in DOMAIN dir THEN dir[name] \o text ELSE text)
        ELSE dir[n]]

\* the writes without the file of line 217
write_file_nowhere(dir, name, text) == dir

\* open(path, "w") followed by the writes: the file holds text and nothing else
write_file(dir, name, text) ==
    [n \in DOMAIN dir \cup {name} |-> IF n = name THEN text ELSE dir[n]]

\* main_file.write(text): main.tex grows when main_file is open on it,
\* and nothing happens when main_file is open on os.devnull
main_write(sink, file, text) ==
    IF sink = "file" THEN Some(file[1] \o text) ELSE file

----------------------------------------------------------------------------
(* The messages *)

NOT_OVERWRITING_MAIN == <<"Not overwriting main.tex">>
WRITING_MAIN == <<"Writing main.tex">>
not_overwriting(name) == <<"Not overwriting", " ">> \o name
writing(name) == <<"Writing", " ">> \o name
PANIC_WARNING == <<"Entering panic mode, output may be faulty">>
failure_warning(original_line) ==
    <<"Failure processing specification line: ">> \o repr(original_line)

\* the except clause with the test of line 235 negated
except_warned_panic_first(pm, w, original_line) ==
    (IF ~pm THEN Append(w, PANIC_WARNING) ELSE w) \o <<failure_warning(original_line)>>

\* the except clause, lines 234-238: the new warnings and the new panic_mode
except_warned(pm, w, original_line) ==
    (IF pm THEN Append(w, PANIC_WARNING) ELSE w) \o <<failure_warning(original_line)>>
except_panic_mode(pm) == IF pm THEN TRUE ELSE pm

----------------------------------------------------------------------------
(* The classifier, lines 146-170 *)

HASH1 == <<"#">>
HASH2 == <<"#", "#">>
HASH3 == <<"#", "#", "#">>

\* lines 151 and 156: assert len(line) == 3
header_tokens_ok(line) == Len(line) = 3

\* the assert of line 167 with the bound of line 162
problem_tokens_ok_same_bound(line) ==
    IF line[1] = HASH3
    THEN Len(line) < 4 /\ Len(line) >= 2
    ELSE Len(line) < 4

\* lines 162-163 and 167-168: the assert on len(line), and line[1] being there
problem_tokens_ok(line) ==
    IF line[1] = HASH3
    THEN Len(line) < 4 /\ Len(line) >= 2
    ELSE Len(line) < 3

\* lines 163 and 168
parsed_problem(line) == IF line[1] = HASH3 THEN line[2] ELSE line[1]

\* lines 164 and 169
parsed_subproblems(line) ==
    IF line[1] = HASH3
    THEN (IF Len(line) = 3 THEN line[3] ELSE << >>)
    ELSE (IF Len(line) = 2 THEN line[2] ELSE << >>)

\* line 170: set(subproblems).issubset(string.ascii_lowercase)
letters_ok(letters) ==
    \A k \in 1..Len(letters) :
        \E a \in 1..Len(ascii_lowercase) : ascii_lowercase[a] = letters[k]

----------------------------------------------------------------------------
(* The inputs *)

TITLE == <<"T">>
LChapter == <<"#", " ", "3", " ", "C">>
LSubchapter == <<"#", "#", " ", "1", " ", "S">>
LProblem == <<"#", "#", "#", " ", "7", " ", "b", "d">>
LBare == <<"7">>
LBareLetters == <<"7", "b", "d">>
LBadChapter == <<"#", " ", "3">>
LBadLetters == <<"#", "#", "#", " ", "7", " ", "b", "D">>
LLoneMarker == <<"#", "#", "#">>
LBareThree == <<"7", " ", "b", " ", "d">>
LBlank == << >>

\* the directive lines the streams of Spec are made of
Pool == {LChapter, LSubchapter, LProblem, LBare, LBareLetters,
         LBadChapter, LBadLetters, LLoneMarker, LBareThree, LBlank}

RECURSIVE SeqsUpTo(_, _)
\* the sequences of at most n elements of S
SeqsUpTo(S, n) ==
    IF n = 0 THEN {<< >>}
    ELSE LET shorter == SeqsUpTo(S, n - 1) IN
         shorter \cup {Append(q, x) : q \in shorter, x \in S}

\* the words the lines of SpecClassify are made of
Words == {HASH1, HASH2, HASH3, <<"7">>, <<"b", "d">>, <<"b", "D">>}

RECURSIVE Join(_)
\* the words of ws, one space between two of them
Join(ws) ==
    IF ws = << >> THEN << >>
    ELSE IF Len(ws) = 1 THEN ws[1]
    ELSE ws[1] \o <<" ">> \o Join(Tail(ws))

\* the lines of at most MaxWords words, with or without whitespace around them
WordLines ==
    {lead \o Join(ws) \o trail :
        ws \in SeqsUpTo(Words, MaxWords),
        lead \in {<< >>, <<" ">>},
        trail \in {<< >>, <<" ">>}}

\* the letters the problem lines of SpecLetters are made of
LetterPool == {"a", "b", "c", "z"}

\* a problem line of SpecLetters: the problem-id 7, bare or after ###, and letters
LetterLines ==
    {form \o <<"7", " ">> \o letters :
        form \in {<< >>, <<"#", "#", "#", " ">>},
        letters \in SeqsUpTo(LetterPool, MaxLetters)}

\* files a destination may hold before the first run
OLD_MAIN == <<"old main.tex">>
OLD_PROBLEM == <<"old problem file">>
OldName == problem_file_name(None, None, Some(<<"7">>), Some(<< >>))
OldDirs == {EmptyDir, write_file(EmptyDir, OldName, OLD_PROBLEM)}

\* the names whose open(path, "w") fails in SpecIO
FailNames == {problem_file_name(None, None, Some(<<"7">>), Some(<< >>)),
              problem_file_name(Some(<<"3">>), None, Some(<<"7">>), Some(<<"b", "d">>))}

----------------------------------------------------------------------------
(* main, lines 95-241 *)

InitLocals ==
    /\ run = 1
    /\ pc = "start"
    /\ i = 1
    /\ main_file = "closed"
    /\ panic_mode = FALSE
    /\ chapter = None
    /\ subchapter = None
    /\ problem = None
    /\ subproblems = None
    /\ stdout = << >>
    /\ warned = << >>
    /\ first_run = [main |-> None, problems |-> EmptyDir, stdout |-> << >>]

Init ==
    /\ spec_lines \in {<< >>} \cup {<<TITLE>> \o ds : ds \in SeqsUpTo(Pool, MaxLines)}
    /\ overwrite \in BOOLEAN
    /\ unwritable = {}
    /\ main_tex \in {None, Some(OLD_MAIN)}
    /\ problems_dir \in OldDirs
    /\ InitLocals

\* lines 113-142 on a specification file with a title line
Begin ==
    /\ pc = "start"
    /\ spec_lines # << >>
    /\ LET title == spec_lines[1] IN
       IF main_tex # None /\ ~overwrite
       THEN /\ stdout' = Append(stdout, NOT_OVERWRITING_MAIN)
            /\ main_file' = "devnull"
            /\ main_tex' = main_tex
       ELSE /\ stdout' = Append(stdout, WRITING_MAIN)
            /\ main_file' = "file"
            /\ main_tex' = Some(MainHead(title))
    /\ panic_mode' = FALSE
    /\ chapter' = None
    /\ subchapter' = None
    /\ problem' = None
    /\ subproblems' = None
    /\ i' = 2
    /\ pc' = "loop"
    /\ UNCHANGED <<spec_lines, overwrite, unwritable, problems_dir, run, warned, first_run>>

\* main.tex opened for writing and announced before the title is read
Abort_after_open ==
    /\ pc = "start"
    /\ spec_lines = << >>
    /\ pc' = "aborted"
    /\ IF main_tex # None /\ ~overwrite
       THEN /\ stdout' = Append(stdout, NOT_OVERWRITING_MAIN)
            /\ main_tex' = main_tex
       ELSE /\ stdout' = Append(stdout, WRITING_MAIN)
            /\ main_tex' = Some(<< >>)
    /\ UNCHANGED <<spec_lines, overwrite, unwritable, problems_dir, run, i,
                   main_file, panic_mode, chapter, subchapter, problem, subproblems,
                   warned, first_run>>

\* line 117 on an empty specification file: next(lines) raises StopIteration,
\* which nothing catches
Abort ==
    /\ pc = "start"
    /\ spec_lines = << >>
    /\ pc' = "aborted"
    /\ UNCHANGED <<spec_lines, overwrite, unwritable, main_tex, problems_dir, run, i,
                   main_file, panic_mode, chapter, subchapter, problem, subproblems,
                   stdout, warned, first_run>>

\* the for loop has a line to take
InLoop == pc = "loop" /\ i <= Len(spec_lines)

\* no except clause: the exception leaves the loop and main
Except_uncaught(original_line) == FALSE

\* the except clause, lines 234-238
Except(original_line) ==
    /\ warned' = except_warned(panic_mode, warned, original_line)
    /\ panic_mode' = except_panic_mode(panic_mode)

\* lines 146-147 on a line without a word
BlankLine ==
    /\ InLoop
    /\ split(spec_lines[i]) = << >>
    /\ i' = i + 1
    /\ UNCHANGED <<spec_lines, overwrite, unwritable, main_tex, problems_dir, run, pc,
                   main_file, panic_mode, chapter, subchapter, problem, subproblems,
                   stdout, warned, first_run>>

\* a chapter directive that starts the chapter without a subchapter
ChapterDirective_resets ==
    /\ InLoop
    /\ LET line == split(spec_lines[i]) IN
       /\ line # << >>
       /\ line[1] = HASH1
       /\ IF header_tokens_ok(line)
          THEN /\ chapter' = Some(line[2])
               /\ subchapter' = None
               /\ main_tex' = main_write(main_file, main_tex, CHAPTER(line[2], line[3]))
               /\ UNCHANGED <<warned, panic_mode>>
          ELSE /\ Except(spec_lines[i])
               /\ UNCHANGED <<chapter, subchapter, main_tex>>
    /\ i' = i + 1
    /\ UNCHANGED <<spec_lines, overwrite, unwritable, problems_dir, run, pc, main_file,
                   problem, subproblems, stdout, first_run>>

\* lines 149-153, and 234-238 when the assert fails
ChapterDirective ==
    /\ InLoop
    /\ LET line == split(spec_lines[i]) IN
       /\ line # << >>
       /\ line[1] = HASH1
       /\ IF header_tokens_ok(line)
          THEN /\ chapter' = Some(line[2])
               /\ main_tex' = main_write(main_file, main_tex, CHAPTER(line[2], line[3]))
               /\ UNCHANGED <<warned, panic_mode>>
          ELSE /\ Except(spec_lines[i])
               /\ UNCHANGED <<chapter, main_tex>>
    /\ i' = i + 1
    /\ UNCHANGED <<spec_lines, overwrite, unwritable, problems_dir, run, pc, main_file,
                   subchapter, problem, subproblems, stdout, first_run>>

\* lines 154-158, and 234-238 when the assert fails
SubchapterDirective ==
    /\ InLoop
    /\ LET line == split(spec_lines[i]) IN
       /\ line # << >>
       /\ line[1] = HASH2
       /\ IF header_tokens_ok(line)
          THEN /\ subchapter' = Some(line[2])
               /\ main_tex' = main_write(main_file, main_tex, SUBCHAPTER(line[2], line[3]))
               /\ UNCHANGED <<warned, panic_mode>>
          ELSE /\ Except(spec_lines[i])
               /\ UNCHANGED <<subchapter, main_tex>>
    /\ i' = i + 1
    /\ UNCHANGED <<spec_lines, overwrite, unwritable, problems_dir, run, pc, main_file,
                   chapter, problem, subproblems, stdout, first_run>>

\* the reference without the page break of line 232
write_reference_no_break(c, s, p, l) ==
    main_write(main_file, main_tex, subfile_reference(c, s, p, l))

\* the reference written only when the problem file is
write_reference_gated(c, s, p, l) ==
    IF exists(problems_dir, problem_file_name(c, s, p, l)) /\ ~overwrite
    THEN main_tex
    ELSE main_write(main_file, main_tex, subfile_reference(c, s, p, l) \o <<PAGEBREAK>>)

\* lines 224-232: the reference and the page break, written to main_file
write_reference(c, s, p, l) ==
    main_write(main_file, main_tex, subfile_reference(c, s, p, l) \o <<PAGEBREAK>>)

\* the test of line 178 without its not
skips_problem_file_inverted(name) == exists(problems_dir, name) /\ overwrite

\* the problem file skipped whenever main.tex is
skips_problem_file_with_main(name) ==
    (exists(problems_dir, name) \/ main_file = "devnull") /\ ~overwrite

\* line 178: the problem file is left as it is
skips_problem_file(name) == exists(problems_dir, name) /\ ~overwrite

\* line 217: open(problem_file_path, "w") raises
open_fails(name) == name \in unwritable

\* the reference written before the problem file is opened
reference_before_open(c, s, p, l) ==
    main_write(main_file, main_tex, subfile_reference(c, s, p, l) \o <<PAGEBREAK>>)

\* main.tex after line 217 raised: lines 224-232 are not reached
main_tex_after_failed_open(c, s, p, l) == main_tex

\* lines 160-232, and 234-238 when a statement of them raises
ProblemDirective ==
    /\ InLoop
    /\ LET original_line == spec_lines[i]
           line == split(original_line)
       IN
       /\ line # << >>
       /\ line[1] \notin {HASH1, HASH2}
       /\ IF ~problem_tokens_ok(line)
          THEN \* line 162, 163 or 167 raises: nothing is assigned
               /\ Except(original_line)
               /\ UNCHANGED <<problem, subproblems, stdout, problems_dir, main_tex>>
          ELSE LET p == Some(parsed_problem(line))
                   l == Some(parsed_subproblems(line))
                   name == problem_file_name(chapter, subchapter, p, l)
               IN
               /\ problem' = p
               /\ subproblems' = l
               /\ IF ~letters_ok(l[1])
                  THEN \* line 170 raises
                       /\ Except(original_line)
                       /\ UNCHANGED <<stdout, problems_dir, main_tex>>
                  ELSE IF skips_problem_file(name)
                  THEN /\ stdout' = Append(stdout, not_overwriting(name))
                       /\ main_tex' = write_reference(chapter, subchapter, p, l)
                       /\ UNCHANGED <<problems_dir, warned, panic_mode>>
                  ELSE IF open_fails(name)
                  THEN \* line 217 raises, after the notice of line 182
                       /\ stdout' = Append(stdout, writing(name))
                       /\ Except(original_line)
                       /\ main_tex' = main_tex_after_failed_open(chapter, subchapter, p, l)
                       /\ UNCHANGED problems_dir
                  ELSE /\ stdout' = Append(stdout, writing(name))
                       /\ problems_dir' = write_file(problems_dir, name, content(p[1], l[1]))
                       /\ main_tex' = write_reference(chapter, subchapter, p, l)
                       /\ UNCHANGED <<warned, panic_mode>>
    /\ i' = i + 1
    /\ UNCHANGED <<spec_lines, overwrite, unwritable, run, pc, main_file,
                   chapter, subchapter, first_run>>

\* lines 240-241, and the return of main
Finish ==
    /\ pc = "loop"
    /\ i > Len(spec_lines)
    /\ main_tex' = main_write(main_file, main_tex, <<"\n", END_DOC>>)
    /\ pc' = "done"
    /\ UNCHANGED <<spec_lines, overwrite, unwritable, problems_dir, run, i, main_file,
                   panic_mode, chapter, subchapter, problem, subproblems,
                   stdout, warned, first_run>>

\* main is called again, on the same specification file and destination
Rerun ==
    /\ pc = "done"
    /\ run = 1
    /\ run' = 2
    /\ pc' = "start"
    /\ i' = 1
    /\ first_run' = [main |-> main_tex, problems |-> problems_dir, stdout |-> stdout]
    /\ main_file' = "closed"
    /\ panic_mode' = FALSE
    /\ chapter' = None
    /\ subchapter' = None
    /\ problem' = None
    /\ subproblems' = None
    /\ stdout' = << >>
    /\ warned' = << >>
    /\ UNCHANGED <<spec_lines, overwrite, unwritable, main_tex, problems_dir>>

Next ==
    \/ Begin
    \/ Abort
    \/ BlankLine
    \/ ChapterDirective
    \/ SubchapterDirective
    \/ ProblemDirective
    \/ Finish
    \/ Rerun

\* runs in which every open(path, "w") of a problem file succeeds
Spec == Init /\ [][Next]_vars

\* runs in which open(path, "w") fails for the problem files of FailNames
InitIO ==
    /\ spec_lines \in {<< >>} \cup {<<TITLE>> \o ds : ds \in SeqsUpTo(Pool, MaxLines)}
    /\ overwrite \in BOOLEAN
    /\ unwritable = FailNames
    /\ main_tex = None
    /\ problems_dir \in OldDirs
    /\ InitLocals

SpecIO == InitIO /\ [][Next]_vars

\* runs on a specification of one directive line, any of WordLines
InitClassify ==
    /\ spec_lines \in {<< >>} \cup {<<TITLE, ln>> : ln \in WordLines}
    /\ overwrite = FALSE
    /\ unwritable = {}
    /\ main_tex = None
    /\ problems_dir = EmptyDir
    /\ InitLocals

SpecClassify == InitClassify /\ [][Next]_vars

\* runs on a chapter, a subchapter, a blank line and one problem line, any of
\* LetterLines
InitLetters ==
    /\ spec_lines \in {<< >>}
          \cup {<<TITLE, LChapter, LSubchapter, LBlank, ln>> : ln \in LetterLines}
    /\ overwrite \in BOOLEAN
    /\ unwritable = {}
    /\ main_tex = None
    /\ problems_dir = EmptyDir
    /\ InitLocals

SpecLetters == InitLetters /\ [][Next]_vars

\* runs of Spec into an empty destination
InitEmpty ==
    /\ spec_lines \in {<< >>} \cup {<<TITLE>> \o ds : ds \in SeqsUpTo(Pool, MaxLines)}
    /\ overwrite \in BOOLEAN
    /\ unwritable = {}
    /\ main_tex = None
    /\ problems_dir = EmptyDir
    /\ InitLocals

SpecEmpty == InitEmpty /\ [][Next]_vars

\* the directive lines SpecIOFair varies: a problem whose file cannot be opened
\* under chapter 3, a malformed problem, and the subchapter that makes the
\* file of the former one that can be opened
FairPool == {LProblem, LBadLetters, LSubchapter}

\* runs that overwrite an empty destination in which FailNames cannot be opened
InitIOFair ==
    /\ spec_lines \in {<< >>}
          \cup {<<TITLE, LChapter, LBlank>> \o ds : ds \in SeqsUpTo(FairPool, MaxLines)}
    /\ overwrite = TRUE
    /\ unwritable = FailNames
    /\ main_tex = None
    /\ problems_dir = EmptyDir
    /\ InitLocals

\* a call of main that can take a step takes one: main is one sequential loop
\* over a finite list, without a suspension point
SpecIOFair == InitIOFair /\ [][Next]_vars /\ WF_vars(Next)

----------------------------------------------------------------------------
(* The vocabulary of the claims *)

Lowercase == {ascii_lowercase[k] : k \in 1..Len(ascii_lowercase)}
AllLowercase(w) == \A k \in 1..Len(w) : w[k] \in Lowercase
Last(q) == q[Len(q)]
Range(q) == {q[k] : k \in 1..Len(q)}
Markers == {HASH1, HASH2, HASH3}

\* the tokens of a line are the marker, the id and the rest of the line
IsChapterLine(raw) == split(raw) # << >> /\ split(raw)[1] = HASH1
IsSubchapterLine(raw) == split(raw) # << >> /\ split(raw)[1] = HASH2
IsProblemLine(raw) == split(raw) # << >> /\ split(raw)[1] \notin {HASH1, HASH2}

\* the problem-id and the letters a problem line gives
ProblemIdOf(raw) ==
    LET t == split(raw) IN IF t[1] = HASH3 THEN t[2] ELSE t[1]
LettersOf(raw) ==
    LET t == split(raw)
        k == IF t[1] = HASH3 THEN 3 ELSE 2
    IN IF Len(t) >= k THEN t[k] ELSE << >>

\* a directive with the wrong token count for its marker, or with letters that
\* hold a character outside a-z
Malformed(raw) ==
    LET t == split(raw) IN
    /\ t # << >>
    /\ \/ t[1] \in {HASH1, HASH2} /\ Len(t) # 3
       \/ t[1] = HASH3 /\ Len(t) \notin {2, 3}
       \/ t[1] \notin Markers /\ Len(t) \notin {1, 2}
       \/ t[1] \notin {HASH1, HASH2} /\ ~AllLowercase(LettersOf(raw))

ValidProblem(raw) == IsProblemLine(raw) /\ ~Malformed(raw)
NoMalformedLine == \A k \in 2..Len(spec_lines) : ~Malformed(spec_lines[k])

\* the line the loop is about to process
Current == spec_lines[i]
\* the line the loop has just processed
Previous == spec_lines[i - 1]
Processed == pc = "loop" /\ i > 2

\* the file identifier of a problem: chapter-id, subchapter-id and problem-id
\* joined by ".", then the letters
Identifier(c, s, p, l) ==
    (IF c = None THEN <<"N", "o", "n", "e">> ELSE c[1]) \o <<".">>
        \o (IF s = None THEN <<"N", "o", "n", "e">> ELSE s[1]) \o <<".">> \o p \o l
DotTex == <<".", "t", "e", "x">>
\* the reference to an identifier and the page break that follows it
ReferenceTo(id) ==
    <<"\t\t\\subfile{problems/">> \o id \o DotTex \o <<"}\n">> \o <<"\t\t\\pagebreak\n">>
\* the identifier of the problem line raw in the current hierarchy state
CurrentIdentifier(raw) == Identifier(chapter, subchapter, ProblemIdOf(raw), LettersOf(raw))

\* the number of elements of q that are x
RECURSIVE Count(_, _)
Count(q, x) ==
    IF q = << >> THEN 0
    ELSE (IF Head(q) = x THEN 1 ELSE 0) + Count(Tail(q), x)

\* the elements of q that are in S, in their order
RECURSIVE Filter(_, _)
Filter(q, S) ==
    IF q = << >> THEN << >>
    ELSE (IF Head(q) \in S THEN <<Head(q)>> ELSE << >>) \o Filter(Tail(q), S)

----------------------------------------------------------------------------
(* C1 *)

\* C1: a malformed directive, at any position of the stream, is skipped without
\* effect: the chapter-id, the subchapter-id, main.tex and the problem files are
\* after it what they were before it, a warning that names the raw line is
\* emitted, and the loop goes on with the next line.
C1_MalformedSkipped ==
    [][ (InLoop /\ Malformed(Current)) =>
            /\ chapter' = chapter
            /\ subchapter' = subchapter
            /\ main_tex' = main_tex
            /\ problems_dir' = problems_dir
            /\ Len(warned') > Len(warned)
            /\ Last(warned') =
                 <<"Failure processing specification line: ", "'">> \o Current \o <<"'">>
            /\ pc' = "loop"
            /\ i' = i + 1 ]_vars

\* a malformed directive has been processed after a chapter was set, a problem
\* file written and main.tex opened for writing
C1_Witness ==
    /\ Processed
    /\ Malformed(Previous)
    /\ chapter # None
    /\ main_file = "file"
    /\ DOMAIN problems_dir # {}
    /\ warned # << >>

----------------------------------------------------------------------------
(* C2 *)

MalformedCount == Cardinality({k \in 2..Len(spec_lines) : Malformed(spec_lines[k])})

\* C2: a run over two or more malformed directives emits the panic mode warning
\* exactly once, a run over fewer never emits it.
C2_PanicOnce ==
    pc = "done" =>
        Count(warned, <<"Entering panic mode, output may be faulty">>)
            = (IF MalformedCount >= 2 THEN 1 ELSE 0)

----------------------------------------------------------------------------
(* C3 *)

ChapterMark == "\\chapter{"
SubchapterMark == "\t\\subchapter{"
ReferenceMark == "\t\t\\subfile{problems/"
PagebreakMark == "\t\t\\pagebreak\n"
EntryMarks == {ChapterMark, SubchapterMark, ReferenceMark, PagebreakMark}

\* what the directive line raw is to leave in main.tex: a header, or a reference
\* followed by a page break
EntryOf(raw) ==
    IF split(raw) = << >> THEN << >>
    ELSE IF IsChapterLine(raw) THEN <<ChapterMark>>
    ELSE IF IsSubchapterLine(raw) THEN <<SubchapterMark>>
    ELSE <<ReferenceMark, PagebreakMark>>

\* the entries of the directive lines k.. of the specification, in input order
RECURSIVE EntriesFrom(_)
EntriesFrom(k) ==
    IF k > Len(spec_lines) THEN << >>
    ELSE EntryOf(spec_lines[k]) \o EntriesFrom(k + 1)

\* C3: after a run that writes main.tex over directives none of which is
\* malformed, main.tex holds exactly one header per chapter or subchapter
\* directive and exactly one reference followed by one page break per problem
\* directive, duplicates included, in the order of the directives.
C3_EntriesInOrder ==
    (pc = "done" /\ main_file = "file" /\ NoMalformedLine) =>
        Filter(main_tex[1], EntryMarks) = EntriesFrom(2)

\* such a run over a chapter directive and the same problem directive twice
C3_Witness ==
    /\ pc = "done"
    /\ main_file = "file"
    /\ NoMalformedLine
    /\ Len(spec_lines) = 4
    /\ IsChapterLine(spec_lines[2])
    /\ ValidProblem(spec_lines[3])
    /\ spec_lines[4] = spec_lines[3]
    /\ Count(main_tex[1], ReferenceMark) = 2

----------------------------------------------------------------------------
(* C4 *)

\* C4: a valid problem directive appends the reference to its identifier to
\* main.tex when its problem file is written and when the file is skipped
\* because it exists and overwrite is off; the skip leaves the file as it is.
C4_ReferenceUngated ==
    [][ (InLoop /\ ValidProblem(Current) /\ main_file = "file") =>
            LET id == CurrentIdentifier(Current)
                skipped == (id \o DotTex) \in DOMAIN problems_dir /\ ~overwrite
            IN
            /\ main_tex' = Some(main_tex[1] \o ReferenceTo(id))
            /\ skipped => problems_dir' = problems_dir
            /\ ~skipped => (id \o DotTex) \in DOMAIN problems_dir' ]_vars

\* a problem directive has just been skipped as existing, and its reference is
\* the last entry of main.tex
C4_Witness ==
    /\ Processed
    /\ run = 1
    /\ main_file = "file"
    /\ ValidProblem(Previous)
    /\ stdout # << >>
    /\ Last(stdout)[1] = "Not overwriting"
    /\ Len(main_tex[1]) > Len(ReferenceTo(<< >>))
    /\ Last(main_tex[1]) = PagebreakMark

----------------------------------------------------------------------------
(* C5 *)

ValidProblemCount ==
    Cardinality({k \in 2..Len(spec_lines) : ValidProblem(spec_lines[k])})

\* C5 as claimed: the write of the problem file and the append of the reference
\* are independent, so that each valid problem directive has its reference in
\* main.tex also when the write of its problem file failed.
C5_ReferenceDespiteFailure ==
    (pc = "done" /\ main_file = "file") =>
        Count(main_tex[1], ReferenceMark) = ValidProblemCount

\* C5 as amended: when open() of the problem file of a valid problem directive
\* raises, the directive is given up like a malformed one: no reference is
\* appended, no problem file changes, the warning that names the line is
\* emitted and the loop goes on; the reference is appended when the file is
\* written and when it is skipped as existing.
C5_FailureBlocksReference ==
    [][ (InLoop /\ ValidProblem(Current) /\ main_file = "file") =>
            LET id == CurrentIdentifier(Current)
                skipped == (id \o DotTex) \in DOMAIN problems_dir /\ ~overwrite
                fails == ~skipped /\ (id \o DotTex) \in unwritable
            IN
            /\ i' = i + 1
            /\ pc' = "loop"
            /\ fails =>
                 /\ main_tex' = main_tex
                 /\ problems_dir' = problems_dir
                 /\ Len(warned') > Len(warned)
                 /\ Last(warned') =
                      <<"Failure processing specification line: ", "'">>
                          \o Current \o <<"'">>
            /\ ~fails =>
                 /\ main_tex' = Some(main_tex[1] \o ReferenceTo(id))
                 /\ warned' = warned ]_vars

\* open() has just raised for a valid problem directive, after the reference of
\* another problem directive was appended
C5_Witness ==
    /\ Processed
    /\ main_file = "file"
    /\ ValidProblem(Previous)
    /\ warned # << >>
    /\ Last(warned) = <<"Failure processing specification line: ", "'">> \o Previous \o <<"'">>
    /\ Count(main_tex[1], ReferenceMark) = 1

----------------------------------------------------------------------------
(* C6 *)

NotOverwriting(name) == <<"Not overwriting", " ">> \o name
Writing(name) == <<"Writing", " ">> \o name
\* the problem files the first run wrote or found
FirstRunFiles ==
    {n \in DOMAIN first_run.problems :
        Writing(n) \in Range(first_run.stdout) \/ NotOverwriting(n) \in Range(first_run.stdout)}

\* C6: a second run with overwrite off leaves main.tex and every problem file
\* as the first run left them, and prints a Not overwriting notice for main.tex
\* and for each problem file.
C6_SecondRunPreserves ==
    (pc = "done" /\ run = 2 /\ ~overwrite) =>
        /\ main_tex = first_run.main
        /\ problems_dir = first_run.problems
        /\ <<"Not overwriting main.tex">> \in Range(stdout)
        /\ \A n \in FirstRunFiles : NotOverwriting(n) \in Range(stdout)
        /\ \A k \in 1..Len(stdout) :
              stdout[k] = <<"Not overwriting main.tex">> \/ stdout[k][1] = "Not overwriting"

\* a second run with overwrite off has ended, after a first run that wrote
\* main.tex and two problem files
C6_Witness ==
    /\ pc = "done"
    /\ run = 2
    /\ ~overwrite
    /\ <<"Writing main.tex">> \in Range(first_run.stdout)
    /\ Cardinality({n \in DOMAIN first_run.problems :
                        Writing(n) \in Range(first_run.stdout)}) = 2

----------------------------------------------------------------------------
(* C7 *)

\* C7: a second run with overwrite on leaves main.tex and the problem files
\* as the first run left them, and what main.tex holds is made from the
\* specification alone: the title head, the entries of the directives, the end.
C7_OverwriteIdempotent ==
    (pc = "done" /\ run = 2 /\ overwrite) =>
        /\ main_tex = first_run.main
        /\ problems_dir = first_run.problems
        /\ main_tex # None
        /\ "old main.tex" \notin Range(main_tex[1])
        /\ \A n \in DOMAIN problems_dir :
              Writing(n) \in Range(stdout) => problems_dir[n] # <<"old problem file">>

\* a second run with overwrite on has ended, in a destination that held a
\* problem file before the first run, over two problem files
C7_Witness ==
    /\ pc = "done"
    /\ run = 2
    /\ overwrite
    /\ Cardinality({n \in DOMAIN problems_dir : Writing(n) \in Range(stdout)}) = 2
    /\ Count(main_tex[1], ReferenceMark) = 3

----------------------------------------------------------------------------
(* C8 *)

Example_3_1_7bd == <<"3", ".", "1", ".", "7", "b", "d">>

\* C8: the identifier of a valid problem directive is the current chapter-id,
\* subchapter-id and the problem-id joined by "." and then the letters; the
\* problem file is named by it and the reference in main.tex embeds the same
\* string.  Chapter 3, subchapter 1, problem 7, letters bd give 3.1.7bd.
C8_Identifier ==
    /\ [][ (InLoop /\ ValidProblem(Current) /\ main_file = "file") =>
              LET id == CurrentIdentifier(Current) IN
              /\ (id \o DotTex) \in DOMAIN problems_dir'
              /\ Last(stdout') \in {Writing(id \o DotTex), NotOverwriting(id \o DotTex)}
              /\ main_tex' = Some(main_tex[1] \o ReferenceTo(id)) ]_vars
    /\ [](  (/\ Processed
             /\ Previous = <<"#", "#", "#", " ", "7", " ", "b", "d">>
             /\ chapter = Some(<<"3">>)
             /\ subchapter = Some(<<"1">>)
             /\ main_file = "file") =>
              /\ (Example_3_1_7bd \o DotTex) \in DOMAIN problems_dir
              /\ LET n == Len(main_tex[1])
                     m == Len(ReferenceTo(Example_3_1_7bd))
                 IN SubSeq(main_tex[1], n - m + 1, n) = ReferenceTo(Example_3_1_7bd) )

\* the directive ### 7 bd has been processed in chapter 3, subchapter 1
C8_Witness ==
    /\ Processed
    /\ Previous = <<"#", "#", "#", " ", "7", " ", "b", "d">>
    /\ chapter = Some(<<"3">>)
    /\ subchapter = Some(<<"1">>)
    /\ main_file = "file"
    /\ (Example_3_1_7bd \o DotTex) \in DOMAIN problems_dir

----------------------------------------------------------------------------
(* C9 *)

\* the chapter-id and the subchapter-id in force at directive line k
RECURSIVE ChapterAt(_)
ChapterAt(k) ==
    IF k <= 2 THEN None
    ELSE IF IsChapterLine(spec_lines[k - 1]) /\ ~Malformed(spec_lines[k - 1])
         THEN Some(split(spec_lines[k - 1])[2])
         ELSE ChapterAt(k - 1)
RECURSIVE SubchapterAt(_)
SubchapterAt(k) ==
    IF k <= 2 THEN None
    ELSE IF IsSubchapterLine(spec_lines[k - 1]) /\ ~Malformed(spec_lines[k - 1])
         THEN Some(split(spec_lines[k - 1])[2])
         ELSE SubchapterAt(k - 1)

\* the problem identity of the valid problem directive at line k
IdentityAt(k) ==
    <<ChapterAt(k), SubchapterAt(k),
      Some(ProblemIdOf(spec_lines[k])), Some(LettersOf(spec_lines[k]))>>
\* the problem file the code addresses for an identity
FileOf(id) == problem_file_name(id[1], id[2], id[3], id[4])

\* C9: two valid problem directives of a run whose problem identities differ
\* never address the same problem file.
C9_OneFilePerIdentity ==
    pc \in {"loop", "done"} =>
        \A j, k \in 2..(i - 1) :
            (/\ ValidProblem(spec_lines[j])
             /\ ValidProblem(spec_lines[k])
             /\ IdentityAt(j) # IdentityAt(k))
                => FileOf(IdentityAt(j)) # FileOf(IdentityAt(k))

----------------------------------------------------------------------------
(* C10 *)

\* all the whitespace-separated words of a line
WordsOf(raw) == SplitFrom(raw, 1, -1)

\* the well-formed directives: # and ## with marker, id and title; ### with a
\* problem-id and at most one further word, all lowercase; any other first word
\* with at most one further word, all lowercase
WellFormedWords(ws) ==
    IF ws[1] \in {HASH1, HASH2} THEN Len(ws) >= 3
    ELSE IF ws[1] = HASH3
         THEN Len(ws) \in {2, 3} /\ (Len(ws) = 3 => AllLowercase(ws[3]))
         ELSE Len(ws) \in {1, 2} /\ (Len(ws) = 2 => AllLowercase(ws[2]))

\* C10: the classifier accepts exactly the well-formed directives: a non-blank
\* line is processed without a failure warning iff it is well-formed.
C10_AcceptsExactlyWellFormed ==
    (pc = "loop" /\ run = 1 /\ i = 3 /\ WordsOf(spec_lines[2]) # << >>) =>
        ((warned = << >>) <=> WellFormedWords(WordsOf(spec_lines[2])))

----------------------------------------------------------------------------
(* C11 *)

\* zero-based alphabet offsets
AlphabetOffset ==
    [a |-> 0, b |-> 1, c |-> 2, d |-> 3, e |-> 4, f |-> 5, g |-> 6, h |-> 7,
     i |-> 8, j |-> 9, k |-> 10, l |-> 11, m |-> 12, n |-> 13, o |-> 14,
     p |-> 15, q |-> 16, r |-> 17, s |-> 18, t |-> 19, u |-> 20, v |-> 21,
     w |-> 22, x |-> 23, y |-> 24, z |-> 25]

ListOpen == "\\begin{enumerate}[a)]\n"
ListClose == "\\end{enumerate}\n"
ItemMark == "\t\\item \n"
ResetMark == "\t\\setcounter{enumi}{"
ResetClose == "}\n"

\* the first index of q that holds x
FirstIndex(q, x) == CHOOSE j \in 1..Len(q) : q[j] = x /\ \A h \in 1..(j - 1) : q[h] # x
\* the index of the k-th x of q
IndexOfNth(q, x, k) ==
    CHOOSE j \in 1..Len(q) :
        q[j] = x /\ Cardinality({h \in 1..j : q[h] = x}) = k

\* what the first enumerated list of a problem file holds between its opening
\* and its closing
ListBody(file) ==
    SubSeq(file, FirstIndex(file, ListOpen) + 1, FirstIndex(file, ListClose) - 1)

\* a problem directive has just been processed and its file written by this step
JustWritten ==
    /\ Processed
    /\ run = 1
    /\ ValidProblem(Previous)
    /\ stdout # << >>
    /\ Last(stdout)[1] = "Writing"
\* the file of the directive just processed, and its letters
WrittenFile ==
    problems_dir[Identifier(chapter, subchapter, ProblemIdOf(Previous),
                            LettersOf(Previous)) \o DotTex]
WrittenLetters == LettersOf(Previous)

\* the list has one item per letter, a reset stands immediately before the item
\* of the k-th letter exactly when its offset is not k - 1, and there is no
\* other reset
ItemsAndResets(body, letters) ==
    /\ Count(body, ItemMark) = Len(letters)
    /\ body # << >> => Last(body) = ItemMark
    /\ \A k \in 1..Len(letters) :
          LET at == IndexOfNth(body, ItemMark, k) IN
          (at > 1 /\ body[at - 1] = ResetClose) <=> (AlphabetOffset[letters[k]] # k - 1)
    /\ Count(body, ResetMark)
          = Cardinality({k \in 1..Len(letters) : AlphabetOffset[letters[k]] # k - 1})
    /\ Count(body, ResetClose) = Count(body, ResetMark)

\* C11: a problem file written for non-empty letters holds a list with exactly
\* one blank item per letter, and a counter reset immediately before the item of
\* a letter exactly when the offset of the letter differs from the number of
\* letters before it; for the letters ac: two items, one reset, before the
\* second item.
C11_ItemsAndResets ==
    (JustWritten /\ WrittenLetters # << >>) =>
        /\ ItemsAndResets(ListBody(WrittenFile), WrittenLetters)
        /\ WrittenLetters = <<"a", "c">> =>
              ListBody(WrittenFile)
                  = <<ItemMark, ResetMark, "2", ResetClose, ItemMark>>

\* the file of a directive with the letters ac has just been written
C11_Witness ==
    /\ JustWritten
    /\ WrittenLetters = <<"a", "c">>
    /\ Count(ListBody(WrittenFile), ItemMark) = 2
    /\ Count(ListBody(WrittenFile), ResetMark) = 1

----------------------------------------------------------------------------
(* C12 *)

SolutionMark == "\\solution\n"
\* what a problem file holds between the problem heading and the solution
\* heading, and between the solution heading and the end of the document
ProblemSection(file) ==
    SubSeq(file, FirstIndex(file, "}\n") + 1, FirstIndex(file, SolutionMark) - 1)
SolutionSection(file) ==
    SubSeq(file, FirstIndex(file, SolutionMark) + 1, Len(file) - 1)

\* C12: a problem file written for a directive without letters holds no list:
\* one blank line stands in place of the list in the problem section and in the
\* solution section; for any letters the solution section repeats what the
\* problem section holds.
C12_PlaceholderAndRepeat ==
    JustWritten =>
        /\ SolutionSection(WrittenFile) = ProblemSection(WrittenFile)
        /\ Last(WrittenFile) = "\\end{document}"
        /\ WrittenLetters = << >> =>
              /\ ProblemSection(WrittenFile) = <<"\n", "\n">>
              /\ ListOpen \notin Range(WrittenFile)
              /\ ItemMark \notin Range(WrittenFile)
        /\ WrittenLetters # << >> =>
              /\ Count(WrittenFile, ListOpen) = 2
              /\ Head(ProblemSection(WrittenFile)) = ListOpen

\* the file of a directive without letters has just been written
C12_Witness ==
    /\ JustWritten
    /\ WrittenLetters = << >>
    /\ Count(WrittenFile, "\n") = 6

----------------------------------------------------------------------------
(* C18 *)

Numerals == <<"0", "1", "2", "3", "4", "5", "6", "7", "8", "9">>
NumeralValue(d) == (CHOOSE n \in 1..10 : Numerals[n] = d) - 1
RECURSIVE Decimal(_)
\* the number a sequence of numerals stands for
Decimal(ds) ==
    IF ds = << >> THEN 0
    ELSE 10 * Decimal(SubSeq(ds, 1, Len(ds) - 1)) + NumeralValue(Last(ds))

RECURSIVE Displayed(_, _)
\* the ordinals the items of a list body display: a reset to n sets the
\* counter to n, an item increments the counter and displays it
Displayed(body, counter) ==
    IF body = << >> THEN << >>
    ELSE IF Head(body) = ItemMark
         THEN <<counter + 1>> \o Displayed(Tail(body), counter + 1)
    ELSE IF Head(body) = ResetMark
         THEN LET close == FirstIndex(body, ResetClose) IN
              Displayed(SubSeq(body, close + 1, Len(body)),
                        Decimal(SubSeq(body, 2, close - 1)))
    ELSE Displayed(Tail(body), counter)

\* C18: for every string of lowercase letters, in order or not, with or without
\* repeats, the k-th item of the list displays the alphabet position of the
\* k-th letter: its offset plus one.
C18_OrdinalsMatchLetters ==
    (JustWritten /\ WrittenLetters # << >>) =>
        Displayed(ListBody(WrittenFile), 0)
            = [k \in 1..Len(WrittenLetters) |-> AlphabetOffset[WrittenLetters[k]] + 1]

----------------------------------------------------------------------------
(* C13 *)

EndMark == "\\end{document}"

\* C13: a run on a specification with a title line reaches the end of the
\* stream, whatever directives fail, and finalizes main.tex: the end of the
\* document is written exactly once, after the entry of the last directive.
C13_RunFinalizes ==
    /\ (pc = "start" /\ spec_lines # << >>) ~> (pc = "done")
    /\ []((pc = "loop" /\ main_file = "file") => Count(main_tex[1], EndMark) = 0)
    /\ []((pc = "done" /\ main_file = "file") =>
            /\ Count(main_tex[1], EndMark) = 1
            /\ Last(main_tex[1]) = EndMark)

\* a run over three problem directives has ended, every one of them failed (a
\* malformed one and one whose file could not be opened among them), and
\* main.tex is closed by the end of the document
C13_Witness ==
    /\ pc = "done"
    /\ main_file = "file"
    /\ Len(spec_lines) = 6
    /\ \A k \in 4..6 : IsProblemLine(spec_lines[k])
    /\ \E k \in 4..6 : ValidProblem(spec_lines[k])
    /\ \E k \in 4..6 : Malformed(spec_lines[k])
    /\ Len(warned) = 3
    /\ Count(main_tex[1], ReferenceMark) = 0
    /\ Last(main_tex[1]) = EndMark

----------------------------------------------------------------------------
(* C14 *)

\* C14: on an empty specification file the run aborts at its first step and
\* stays aborted: no line is processed, nothing is printed or warned, and
\* main.tex and the problem files are what they were.
C14_EmptyAborts ==
    /\ [][(pc = "start" /\ spec_lines = << >>) =>
            /\ pc' = "aborted"
            /\ UNCHANGED <<main_tex, problems_dir, stdout, warned, i, main_file>>]_vars
    /\ [][pc # "aborted"]_vars
    /\ [](spec_lines = << >> => pc \in {"start", "aborted"})
    /\ [](pc = "aborted" =>
            /\ spec_lines = << >>
            /\ i = 1
            /\ main_file = "closed"
            /\ stdout = << >>
            /\ warned = << >>)

\* a run with overwrite on has aborted in a destination that held a main.tex
\* and a problem file, and both are as they were
C14_Witness ==
    /\ pc = "aborted"
    /\ overwrite
    /\ main_tex = Some(OLD_MAIN)
    /\ exists(problems_dir, OldName)
    /\ problems_dir[OldName] = OLD_PROBLEM

----------------------------------------------------------------------------
(* C15 *)

\* the lines that hold a valid problem directive
ValidProblemLines == {k \in 2..Len(spec_lines) : ValidProblem(spec_lines[k])}
\* the file identifier of the valid problem directive at line k
IdentifierAt(k) ==
    Identifier(ChapterAt(k), SubchapterAt(k),
               ProblemIdOf(spec_lines[k]), LettersOf(spec_lines[k]))
\* the one warning names the malformed line
OneWarningNamesTheLine ==
    /\ Len(warned) = 1
    /\ \E k \in 2..Len(spec_lines) :
          /\ Malformed(spec_lines[k])
          /\ warned[1] = <<"Failure processing specification line: ">> \o repr(spec_lines[k])
\* a first run into an empty destination has ended on a specification with
\* exactly one malformed line
OneMalformedRun == pc = "done" /\ run = 1 /\ MalformedCount = 1

\* C15 as claimed: one malformed line and N valid problem directives, run
\* against an empty destination, give exactly N problem files, exactly N
\* references in main.tex and exactly one warning, which names the line.
C15_NFilesNReferences ==
    OneMalformedRun =>
        /\ Cardinality(DOMAIN problems_dir) = ValidProblemCount
        /\ Count(main_tex[1], ReferenceMark) = ValidProblemCount
        /\ OneWarningNamesTheLine

\* C15: one malformed line and N valid problem directives, run against an
\* empty destination, give exactly one problem file per file identifier among
\* the N directives (N files when the identifiers differ pairwise), exactly N
\* references in main.tex and exactly one warning, which names the line.
C15_OneFilePerIdentifier ==
    OneMalformedRun =>
        /\ DOMAIN problems_dir = {IdentifierAt(k) \o DotTex : k \in ValidProblemLines}
        /\ (\A j, k \in ValidProblemLines : j # k => IdentifierAt(j) # IdentifierAt(k))
              => Cardinality(DOMAIN problems_dir) = ValidProblemCount
        /\ Count(main_tex[1], ReferenceMark) = ValidProblemCount
        /\ OneWarningNamesTheLine

\* a run over one malformed line and two valid problem directives has ended
\* with two problem files
C15_Witness ==
    /\ OneMalformedRun
    /\ ValidProblemCount = 2
    /\ Cardinality(DOMAIN problems_dir) = 2
    /\ Len(warned) = 1

----------------------------------------------------------------------------
(* C16 *)

\* the file the valid problem directive the loop is about to process addresses
CurrentFile == CurrentIdentifier(Current) \o DotTex

\* C16: with overwrite off, main.tex is skipped exactly when main.tex exists
\* and a problem file exactly when that problem file exists, whatever was
\* decided for the other files: a skipped main.tex stays as it was for the whole
\* run while a missing problem file is written, and a missing main.tex is
\* written also when the problem file is skipped.
C16_IndependentSkips ==
    /\ [][(pc = "start" /\ spec_lines # << >> /\ ~overwrite) =>
            IF main_tex # None
            THEN /\ main_file' = "devnull"
                 /\ main_tex' = main_tex
                 /\ stdout' = Append(stdout, <<"Not overwriting main.tex">>)
            ELSE /\ main_file' = "file"
                 /\ main_tex' # None
                 /\ stdout' = Append(stdout, <<"Writing main.tex">>)]_vars
    /\ [][main_file = "devnull" => main_tex' = main_tex]_vars
    /\ [][(InLoop /\ ValidProblem(Current) /\ ~overwrite) =>
            IF CurrentFile \in DOMAIN problems_dir
            THEN /\ problems_dir' = problems_dir
                 /\ stdout' = Append(stdout, NotOverwriting(CurrentFile))
                 /\ main_file = "file" =>
                        main_tex' = Some(main_tex[1] \o ReferenceTo(CurrentIdentifier(Current)))
            ELSE /\ DOMAIN problems_dir' = DOMAIN problems_dir \cup {CurrentFile}
                 /\ \A n \in DOMAIN problems_dir : problems_dir'[n] = problems_dir[n]
                 /\ stdout' = Append(stdout, Writing(CurrentFile))]_vars

\* a first run with overwrite off has ended in a destination that held a
\* main.tex: main.tex is as it was, and a problem file that was missing is
\* written
C16_Witness ==
    /\ pc = "done"
    /\ run = 1
    /\ ~overwrite
    /\ main_file = "devnull"
    /\ main_tex = Some(OLD_MAIN)
    /\ \E n \in DOMAIN problems_dir :
          /\ Writing(n) \in Range(stdout)
          /\ problems_dir[n] # OLD_PROBLEM

----------------------------------------------------------------------------
(* C17 *)

NoneText == <<"N", "o", "n", "e">>

\* C17: chapter-id and subchapter-id are None until a valid # resp. ##
\* directive sets them; a valid # directive sets the chapter-id and leaves the
\* subchapter-id, a valid ## directive sets the subchapter-id and leaves the
\* chapter-id, every other line leaves both; a problem directive processed
\* while one of them is None addresses a file whose name holds the text None
\* in its place.
C17_HierarchyFrame ==
    /\ [](pc = "loop" => chapter = ChapterAt(i) /\ subchapter = SubchapterAt(i))
    /\ [][pc = "start" /\ pc' = "loop" => chapter' = None /\ subchapter' = None]_vars
    /\ [][InLoop =>
            IF IsChapterLine(Current) /\ ~Malformed(Current)
            THEN chapter' = Some(split(Current)[2]) /\ subchapter' = subchapter
            ELSE IF IsSubchapterLine(Current) /\ ~Malformed(Current)
            THEN subchapter' = Some(split(Current)[2]) /\ chapter' = chapter
            ELSE chapter' = chapter /\ subchapter' = subchapter]_vars
    /\ [][(InLoop /\ ValidProblem(Current)) =>
            LET c == IF chapter = None THEN NoneText ELSE chapter[1]
                s == IF subchapter = None THEN NoneText ELSE subchapter[1]
                name == c \o <<".">> \o s \o <<".">>
                          \o ProblemIdOf(Current) \o LettersOf(Current) \o DotTex
            IN /\ name \in DOMAIN problems_dir'
               /\ Last(stdout') \in {Writing(name), NotOverwriting(name)}]_vars

\* a problem directive was processed before any header and its file
\* None.None.7.tex written, then a subchapter directive, and the chapter
\* directive just processed has left the subchapter-id as it was
C17_Witness ==
    /\ Processed
    /\ IsChapterLine(Previous)
    /\ chapter = Some(<<"3">>)
    /\ subchapter = Some(<<"1">>)
    /\ Writing(NoneText \o <<".">> \o NoneText \o <<".", "7">> \o DotTex) \in Range(stdout)
    /\ exists(problems_dir, NoneText \o <<".">> \o NoneText \o <<".", "7">> \o DotTex)

----------------------------------------------------------------------------
(* C19 *)

CloseMark == "}\n"
\* the file name of the reference whose mark is at position k of text: what
\* stands between the mark and the first close after it
ReferencedName(text, k) ==
    LET close == CHOOSE m \in (k + 1)..Len(text) :
                    /\ text[m] = CloseMark
                    /\ \A j \in (k + 1)..(m - 1) : text[j] # CloseMark
    IN SubSeq(text, k + 1, close - 1)
\* the file names main.tex refers to
ReferencedNames(text) ==
    {ReferencedName(text, k) : k \in {j \in 1..Len(text) : text[j] = ReferenceMark}}

\* C19: while a run writes main.tex, every reference main.tex holds names a
\* file that is in dest/problems, and a step that ends in the warning of a
\* failed directive appends nothing to main.tex.
C19_ReferencesExist ==
    /\ [](main_file = "file" =>
            \A n \in ReferencedNames(main_tex[1]) : n \in DOMAIN problems_dir)
    /\ [][Len(warned') > Len(warned) => main_tex' = main_tex]_vars

\* a run that writes main.tex has appended a reference and has warned of a
\* valid problem directive whose problem file could not be opened
C19_Witness ==
    /\ pc \in {"loop", "done"}
    /\ main_file = "file"
    /\ ReferencedNames(main_tex[1]) # {}
    /\ \E k \in 2..(i - 1) :
          /\ ValidProblem(spec_lines[k])
          /\ <<"Failure processing specification line: ">> \o repr(spec_lines[k])
                \in Range(warned)

====
